---- MODULE Spec2Model ----
(***************************************************************************)
(* A model of solar_logger: the Logger of logger.py (and of its older      *)
(* variant sqlite_logger.py), its sensors, the sqlite store of readings    *)
(* and the upload-then-mark-sent forwarding cycle.                         *)
(***************************************************************************)
EXTENDS Integers, Sequences, FiniteSets, TLC

(***************************************************************************)
(* Bounds of the model.                                                    *)
(***************************************************************************)
\* rows a table may hold before sampling stops
MaxRows == 2
\* the last instant of the clock
MaxTime == 1
\* storage failures and process stops the environment inflicts in a run
MaxFaults == 1

(***************************************************************************)
(* Values.                                                                 *)
(***************************************************************************)
\* SQL NULL in a numeric column (times and source_ids are >= 0)
NULL == -1

\* Python's None where a string is expected (strings are sequences of
\* one-character strings, so this is none of them)
None == <<"None">>

\* the empty string
EmptyStr == <<>>

\* the two source variants of the Logger
Variants == {"logger", "sqlite_logger"}

RECURSIVE SeqMax(_)
SeqMax(s) == IF s = <<>> THEN 0
             ELSE LET m == SeqMax(Tail(s)) IN IF Head(s) > m THEN Head(s) ELSE m

SeqToSet(s) == {s[i] : i \in 1..Len(s)}

RECURSIVE SelectSeqBy(_, _)
\* the subsequence of the rows of s whose source_id is in S
SelectSeqBy(s, S) == IF s = <<>> THEN <<>>
                     ELSE IF Head(s).source_id \in S
                          THEN <<Head(s)>> \o SelectSeqBy(Tail(s), S)
                          ELSE SelectSeqBy(Tail(s), S)

(***************************************************************************)
(* Numbers: Python floats are modelled as exact rationals n/d, d > 0, in   *)
(* lowest terms.                                                           *)
(***************************************************************************)
Abs(x) == IF x < 0 THEN -x ELSE x

RECURSIVE Gcd(_, _)
Gcd(a, b) == IF b = 0 THEN a ELSE Gcd(b, a % b)

\* n/d over the common divisor g, the sign on the numerator
Reduced(n, d, g) == IF g = 0 THEN [n |-> 0, d |-> 1]
                    ELSE IF d < 0 THEN [n |-> -(n \div g), d |-> -(d \div g)]
                    ELSE [n |-> n \div g, d |-> d \div g]

Rat(n, d) == Reduced(n, d, Gcd(Abs(n), Abs(d)))

\* x * y, g1 dividing x.n and y.d, g2 dividing y.n and x.d
MulOver(x, y, g1, g2) ==
  [n |-> (x.n \div g1) * (y.n \div g2), d |-> (x.d \div g2) * (y.d \div g1)]

\* the products are taken after cancelling, which keeps them small
RatMul(x, y) == IF x.n = 0 \/ y.n = 0 THEN [n |-> 0, d |-> 1]
                ELSE MulOver(x, y, Gcd(Abs(x.n), y.d), Gcd(Abs(y.n), x.d))

LessOver(x, y, g) == x.n * (y.d \div g) < y.n * (x.d \div g)

RatLess(x, y) == LessOver(x, y, Gcd(x.d, y.d))

\* the smaller of the two
RatMin(x, y) == IF RatLess(x, y) THEN x ELSE y

\* Python's max(a, b): b only when it is greater than a
RatMax(x, y) == IF RatLess(x, y) THEN y ELSE x

(***************************************************************************)
(* Strings, as sequences of one-character strings.                         *)
(***************************************************************************)
RECURSIVE Find(_, _)
\* the first index of character c in s, 0 when there is none
Find(s, c) == IF s = <<>> THEN 0
              ELSE IF Head(s) = c THEN 1
              ELSE LET k == Find(Tail(s), c) IN IF k = 0 THEN 0 ELSE k + 1

RECURSIVE Split(_, _)
\* str.split(c): always at least one part
Split(s, c) == LET k == Find(s, c)
               IN IF k = 0 THEN <<s>>
                  ELSE <<SubSeq(s, 1, k - 1)>> \o Split(SubSeq(s, k + 1, Len(s)), c)

RECURSIVE LStrip(_)
LStrip(s) == IF s /= <<>> /\ Head(s) = " " THEN LStrip(Tail(s)) ELSE s

RECURSIVE RStrip(_)
RStrip(s) == IF s /= <<>> /\ s[Len(s)] = " " THEN RStrip(SubSeq(s, 1, Len(s) - 1)) ELSE s

\* str.strip()
Strip(s) == RStrip(LStrip(s))

\* the '+' of a query string stands for a space
PlusToSpace(s) == [i \in 1..Len(s) |-> IF s[i] = "+" THEN " " ELSE s[i]]

RECURSIVE ParseQsl(_)
\* urllib.parse.parse_qsl over the '&'-separated fields: a field with no '='
\* or with a blank value is dropped (percent-escapes are not modelled)
ParseQsl(fields) ==
  IF fields = <<>> THEN <<>>
  ELSE LET f == Head(fields)
           k == Find(f, "=")
           rest == ParseQsl(Tail(fields))
       IN IF k = 0 \/ k = Len(f) THEN rest
          ELSE <<[name |-> PlusToSpace(SubSeq(f, 1, k - 1)),
                  value |-> PlusToSpace(SubSeq(f, k + 1, Len(f)))]>> \o rest

\* parse_qs(s)[key][0] when key is in parse_qs(s), None otherwise
QsFirst(s, key) ==
  LET pairs == ParseQsl(Split(s, "&"))
      hits == SelectSeq(pairs, LAMBDA p : p.name = key)
  IN IF hits = <<>> THEN None ELSE hits[1].value

RECURSIVE OptionInParts(_, _)
OptionInParts(parts, key) ==
  IF parts = <<>> THEN None
  ELSE LET v == QsFirst(Strip(Head(parts)), key)
       IN IF v /= None THEN v ELSE OptionInParts(Tail(parts), key)

\* the option looked for in the first comma-separated part alone
OptionInFirstPart(tag, key) == QsFirst(Strip(Head(Split(tag, ","))), key)

\* option_in_tag(tag, key); tag.split raises AttributeError on None
OptionRaises(tag) == tag = None

option_in_tag(tag, key) == OptionInParts(Split(tag, ","), key)

Digits == <<"0", "1", "2", "3", "4", "5", "6", "7", "8", "9">>

IsDigit(c) == \E i \in 1..10 : Digits[i] = c

DigitVal(c) == (CHOOSE i \in 1..10 : Digits[i] = c) - 1

RECURSIVE Pow10(_)
Pow10(k) == IF k = 0 THEN 1 ELSE 10 * Pow10(k - 1)

RECURSIVE DigitsVal(_)
DigitsVal(s) == IF s = <<>> THEN 0
                ELSE DigitsVal(SubSeq(s, 1, Len(s) - 1)) * 10 + DigitVal(s[Len(s)])

AllDigits(s) == \A i \in 1..Len(s) : IsDigit(s[i])

\* the unsigned decimal forms float() accepts: digits, digits., .digits,
\* digits.digits (exponents, inf, nan and underscores are not modelled)
IsDecimal(s) ==
  LET k == Find(s, ".")
  IN IF k = 0 THEN s /= <<>> /\ AllDigits(s)
     ELSE /\ AllDigits(SubSeq(s, 1, k - 1))
          /\ AllDigits(SubSeq(s, k + 1, Len(s)))
          /\ Len(s) > 1

DecimalVal(s) ==
  LET k == Find(s, ".")
  IN IF k = 0 THEN Rat(DigitsVal(s), 1)
     ELSE Rat(DigitsVal(SubSeq(s, 1, k - 1) \o SubSeq(s, k + 1, Len(s))),
              Pow10(Len(s) - k))

Unsigned(s) == IF s /= <<>> /\ Head(s) \in {"+", "-"} THEN Tail(s) ELSE s

\* whether float(s) succeeds
FloatOk(s) == IsDecimal(Unsigned(Strip(s)))

\* float(s), for FloatOk(s)
Float(s) == LET t == Strip(s)
                v == DecimalVal(Unsigned(t))
            IN IF t /= <<>> /\ Head(t) = "-" THEN Rat(-v.n, v.d) ELSE v


SubOver(x, y, g) == Rat(x.n * (y.d \div g) - y.n * (x.d \div g), (x.d \div g) * y.d)

RatSub(x, y) == SubOver(x, y, Gcd(x.d, y.d))

\* x / y, for y /= 0
RatDiv(x, y) == RatMul(x, IF y.n < 0 THEN [n |-> -y.d, d |-> -y.n] ELSE [n |-> y.d, d |-> y.n])

FromInt(i) == Rat(i, 1)

(***************************************************************************)
(* Sensors.                                                                *)
(***************************************************************************)
TSL2591_LUX_DF == Rat(408, 1)
TSL2591_LUX_COEFB == Rat(164, 100)
TSL2591_LUX_COEFC == Rat(59, 100)
TSL2591_LUX_COEFD == Rat(86, 100)

tls2591_columns == <<"visible", "infrared", "lux">>

cpu_columns == <<"user", "nice", "system", "idle", "iowait", "irq", "softirq",
                 "steal", "guest", "guest_nice">>

\* sqlite_logger.py spells the irq column irqx
sqlite_cpu_columns == <<"user", "nice", "system", "idle", "iowait", "irqx", "softirq",
                        "steal", "guest", "guest_nice">>

\* the sensors the Logger is constructed with, in dictionary order; a
\* sensor's name is its table's name
Sensors == <<"luminosity", "cpu">>

Tables == SeqToSet(Sensors)

\* Sensor.schema: the column names of a sensor's table
Schema(v, name) == IF name = "luminosity" THEN tls2591_columns
                   ELSE IF v = "logger" THEN cpu_columns ELSE sqlite_cpu_columns

\* Python truthiness of a string or None
TruthyStr(s) == s /= None /\ s /= EmptyStr

\* Python truthiness of an integer or None (None is NULL here)
TruthyInt(i) == i /= NULL /\ i /= 0

\* lux = None
LuxNone == [n |-> 0, d |-> 0]

overflow == <<"o", "v", "e", "r", "f", "l", "o", "w">>

nd_key == <<"n", "d">>

atime == FromInt(100)

again == FromInt(1)

\* counts per lux
Cpl == RatDiv(RatMul(atime, again), TSL2591_LUX_DF)

Lux1(channel_0, channel_1, cpl) ==
  RatDiv(RatSub(channel_0, RatMul(TSL2591_LUX_COEFB, channel_1)), cpl)

Lux2(channel_0, channel_1, cpl) ==
  RatDiv(RatSub(RatMul(TSL2591_LUX_COEFC, channel_0),
                RatMul(TSL2591_LUX_COEFD, channel_1)), cpl)

LuxOfChannels(channel_0, channel_1, cpl) ==
  RatMax(Lux1(channel_0, channel_1, cpl), Lux2(channel_0, channel_1, cpl))

\* the lux the sensor computes from its raw channels when the lux read failed
OverflowLux(visible, infrared) ==
  LuxOfChannels(FromInt((visible + infrared) % 65536), FromInt(infrared), Cpl)

\* the tag after the overflow marker is joined to it
OverflowTag(tag) == IF TruthyStr(tag) THEN tag \o <<",">> \o overflow ELSE overflow

\* lux after the tag's nd option is applied; a value float() rejects is ignored
ApplyNd(lux, nd) == IF TruthyStr(nd) /\ FloatOk(nd) THEN RatMul(lux, Float(nd)) ELSE lux

Absent == [kind |-> "absent"]

Raise(e) == [kind |-> "raise", error |-> e]

Data(d) == [kind |-> "data", data |-> d]

\* the end of sensor_data: the nd option of the tag, and the reading
LightReading(tag, visible, infrared, lux) ==
  IF OptionRaises(tag) THEN Raise("AttributeError")
  ELSE Data([tag |-> tag, visible |-> visible, infrared |-> infrared,
             lux |-> ApplyNd(lux, option_in_tag(tag, nd_key))])

\* sensor_data once the three reads are done, None standing for a failed one
LightData(tag, visible, infrared, lux) ==
  IF TruthyInt(visible) /\ TruthyInt(infrared)
  THEN IF lux = LuxNone
       THEN LightReading(OverflowTag(tag), visible, infrared, OverflowLux(visible, infrared))
       ELSE LightReading(tag, visible, infrared, lux)
  ELSE Absent

\* Tsl2591Sensor.sensor_data(tag), the hardware answering hw: its visible,
\* infrared and lux, and in hw.err the properties whose read raises RuntimeError
Tsl2591SensorData(tag, hw) ==
  LightData(tag,
            IF "visible" \in hw.err THEN NULL ELSE hw.visible,
            IF "infrared" \in hw.err THEN NULL ELSE hw.infrared,
            IF "lux" \in hw.err THEN LuxNone ELSE hw.lux)

\* sqlite_logger.py's Tls2591Sensor.sensor_data(): no read error is caught
SqliteTls2591SensorData(hw) ==
  IF hw.err /= {} THEN Raise("RuntimeError")
  ELSE Data([visible |-> hw.visible, infrared |-> hw.infrared, lux |-> hw.lux])

\* PsCpuSensor.sensor_data(tag): the schema's fields the host exposes
PsCpuSensorData(tag, host) ==
  Data([k \in {"tag"} \cup (SeqToSet(cpu_columns) \cap DOMAIN host) |->
          IF k = "tag" THEN tag ELSE host[k]])

SqlitePsCpuSensorData(host) ==
  Data([k \in SeqToSet(sqlite_cpu_columns) \cap DOMAIN host |-> host[k]])

\* a dict is falsy when it is empty
TruthyDict(d) == DOMAIN d /= {}

\* sensor.sensor_data, by variant and sensor; env holds what the hardware
\* and the host answer
SensorData(v, name, tag, env) ==
  IF v = "logger"
  THEN IF name = "luminosity" THEN Tsl2591SensorData(tag, env.hw)
       ELSE PsCpuSensorData(tag, env.host)
  ELSE IF name = "luminosity" THEN SqliteTls2591SensorData(env.hw)
       ELSE SqlitePsCpuSensorData(env.host)

\* the end of Sensor.collect: r is what sensor_data returned or raised
Collected(v, name, dt, r) ==
  IF r.kind /= "data" THEN r
  ELSE IF v = "logger" /\ ~TruthyDict(r.data) THEN Absent
  ELSE Data([table |-> name, at |-> dt, data |-> r.data])

\* Sensor.collect(dt, tag): a reading, absent, or the error sensor_data raised
SensorCollect(v, name, dt, tag, env) == Collected(v, name, dt, SensorData(v, name, tag, env))


(***************************************************************************)
(* The store: one table per sensor, its rows in insertion order.           *)
(***************************************************************************)
RowIds(rows) == [i \in 1..Len(rows) |-> rows[i].source_id]

\* a store that gives a new row the largest rowid of the table again
ReusedRowid(rows) == IF rows = <<>> THEN 1 ELSE SeqMax(RowIds(rows))

\* the rowid sqlite gives a row inserted with no value for its INTEGER
\* PRIMARY KEY column: one more than the largest in the table
NextRowid(rows) == SeqMax(RowIds(rows)) + 1

\* INSERT INTO table (at, <the reading's keys>) VALUES (...): the columns the
\* reading does not name are NULL
InsertRow(v, rows, reading) ==
  Append(rows, [source_id |-> NextRowid(rows),
                tag |-> IF "tag" \in DOMAIN reading.data THEN reading.data["tag"] ELSE None,
                at |-> reading.at,
                sent |-> NULL,
                data |-> [c \in SeqToSet(Schema(v, reading.table)) |->
                            IF c \in DOMAIN reading.data THEN reading.data[c] ELSE NULL]])

\* SELECT * FROM table, with no WHERE clause
SelectAllRows(rows) == rows

\* SELECT * FROM table WHERE sent IS NULL ORDER BY source_id DESC LIMIT 1
SelectNewestUnsent(rows) ==
  IF \A i \in 1..Len(rows) : rows[i].sent /= NULL THEN <<>>
  ELSE <<rows[CHOOSE i \in 1..Len(rows) :
                /\ rows[i].sent = NULL
                /\ \A j \in 1..Len(rows) : rows[j].sent = NULL => j <= i]>>

\* SELECT * FROM table WHERE sent IS NULL AND source_id > the newest row sent
SelectUnsentAboveSent(rows) ==
  SelectSeq(rows, LAMBDA r : /\ r.sent = NULL
                             /\ \A j \in 1..Len(rows) :
                                  rows[j].sent /= NULL => rows[j].source_id < r.source_id)

\* SELECT * FROM table WHERE sent IS NULL
SelectUnsent(rows) == SelectSeq(rows, LAMBDA r : r.sent = NULL)

\* UPDATE table SET sent = now WHERE sent IS NULL, whatever the ids
UpdateSentAll(rows, ids, t) ==
  [i \in 1..Len(rows) |-> IF rows[i].sent = NULL
                          THEN [rows[i] EXCEPT !.sent = t] ELSE rows[i]]

\* UPDATE table SET sent = at WHERE source_id IN (ids)
UpdateSentAtCapture(rows, ids, t) ==
  [i \in 1..Len(rows) |-> IF rows[i].source_id \in SeqToSet(ids)
                          THEN [rows[i] EXCEPT !.sent = rows[i].at] ELSE rows[i]]

\* UPDATE table SET sent = now WHERE source_id IN (ids) OR sent IS NULL
UpdateSentOrUnsent(rows, ids, t) ==
  [i \in 1..Len(rows) |-> IF rows[i].source_id \in SeqToSet(ids) \/ rows[i].sent = NULL
                          THEN [rows[i] EXCEPT !.sent = t] ELSE rows[i]]

\* UPDATE table SET sent = now WHERE source_id IN (ids)
UpdateSent(rows, ids, t) ==
  [i \in 1..Len(rows) |-> IF rows[i].source_id \in SeqToSet(ids)
                          THEN [rows[i] EXCEPT !.sent = t] ELSE rows[i]]

\* cursor.rowcount of that UPDATE: the rows its WHERE clause matches
UpdateRowcount(rows, ids) ==
  Cardinality({i \in 1..Len(rows) : rows[i].source_id \in SeqToSet(ids)})

(***************************************************************************)
(* The Logger's sampling pass.                                             *)
(***************************************************************************)
\* what one sensor gave (r), then what the sensors after it gave (rest): an
\* error ends the loop, an absent reading is skipped
Collecting(r, rest) ==
  IF r.kind = "raise" THEN r
  ELSE IF rest.kind = "raise" THEN rest
  ELSE IF r.kind = "absent" THEN rest
  ELSE [kind |-> "data", batch |-> <<r.data>> \o rest.batch]

RECURSIVE CollectEvery(_, _, _, _, _, _)
\* the loop over all the sensors, enabled or not
CollectEvery(v, i, en, dt, tg, env) ==
  IF i > Len(Sensors) THEN [kind |-> "data", batch |-> <<>>]
  ELSE Collecting(SensorCollect(v, Sensors[i], dt, tg, env),
                  CollectEvery(v, i + 1, en, dt, tg, env))

RECURSIVE CollectFrom(_, _, _, _, _, _)
\* the loop of collect_data over the sensors from index i on: the batch, or
\* the error a sensor raised
CollectFrom(v, i, en, dt, tg, env) ==
  IF i > Len(Sensors) THEN [kind |-> "data", batch |-> <<>>]
  ELSE Collecting(IF en[Sensors[i]] THEN SensorCollect(v, Sensors[i], dt, tg, env) ELSE Absent,
                  CollectFrom(v, i + 1, en, dt, tg, env))

\* Logger.collect_data()
CollectData(v, en, dt, tg, env) == CollectFrom(v, 1, en, dt, tg, env)

\* the fields a sensor's format template names
FormatFields(name) == IF name = "luminosity" THEN {"visible", "infrared", "lux"}
                      ELSE {"user", "system", "idle"}

\* Logger.print_log: format_map raises KeyError on a field the data lacks
PrintLogRaises(batch) ==
  \E i \in 1..Len(batch) : ~(FormatFields(batch[i].table) \subseteq DOMAIN batch[i].data)

RECURSIVE PersistFrom(_, _, _, _, _)
\* the loop of persist_data from reading i on, each INSERT committed on its
\* own; the INSERT of reading failAt fails (0: none does)
PersistFrom(v, st, batch, i, failAt) ==
  IF i > Len(batch) THEN [store |-> st, raised |-> ""]
  ELSE IF i = failAt THEN [store |-> st, raised |-> "sqlite3.Error"]
  ELSE PersistFrom(v, [st EXCEPT ![batch[i].table] = InsertRow(v, st[batch[i].table], batch[i])],
                   batch, i + 1, failAt)

\* Logger.persist_data(all_data) (log_data in sqlite_logger.py)
PersistData(v, st, batch, failAt) == PersistFrom(v, st, batch, 1, failAt)


(***************************************************************************)
(* The Logger's forwarding cycle.                                          *)
(***************************************************************************)
\* the tables argument of upload_unsent_data: 'all', a table's name, a list
\* of names, or a value of another type
TablesArgs == {[kind |-> "all", names |-> <<>>],
               [kind |-> "str", names |-> <<"cpu">>],
               [kind |-> "list", names |-> <<>>],
               [kind |-> "other", names |-> <<>>]}

\* the list of tables fetch_unsent_data settles on
FetchTables(arg) == IF arg.kind = "all" THEN Sensors
                    ELSE IF arg.kind \in {"str", "list"} THEN arg.names
                    ELSE <<>>

\* fetch_unsent_data returns None, not a dict, for an empty list of tables
FetchReturnsNone(arg) == FetchTables(arg) = <<>>

\* fetch_unsent_data(tables): the dict all_data, as its items in order
FetchUnsentData(st, arg) ==
  LET ts == FetchTables(arg)
  IN [i \in 1..Len(ts) |-> [table |-> ts[i], rows |-> SelectUnsent(st[ts[i]])]]

\* a row object of a response that has no source_id key
NoKey == 0

\* the statuses a response may carry
Statuses == {199, 200, 299, 300}

\* the ids a response's row list may name: those of the table's rows and one
\* of no row
EchoIds == 1..(MaxRows + 1)

RECURSIVE Ascending(_, _)
\* the members of S from k up, in ascending order
Ascending(S, k) == IF \A x \in S : x < k THEN <<>>
                   ELSE IF k \in S THEN <<k>> \o Ascending(S, k + 1)
                   ELSE Ascending(S, k + 1)

\* the row lists a response may carry, told apart up to the order of their
\* rows: one list for each set of rows, and one that names a row twice
EchoLists == {Ascending(S, 0) : S \in SUBSET (EchoIds \cup {NoKey})} \cup {<<1, 1>>}

\* what the remote endpoint may answer: no answer at all (a transport failure
\* or timeout), or a status with a body that is malformed or carries
\* record.rows, each row with its source_id or without one
Responses ==
  {[kind |-> "transport", status |-> 0, wellformed |-> FALSE, rows |-> <<>>]}
  \cup {[kind |-> "http", status |-> c, wellformed |-> FALSE, rows |-> <<>>] : c \in Statuses}
  \cup {[kind |-> "http", status |-> c, wellformed |-> TRUE, rows |-> e] :
          c \in Statuses, e \in EchoLists}

\* resp.status >= 300 alone
StatusAbove(status) == status >= 300

\* resp.status < 200 or resp.status >= 300
StatusRejected(status) == status < 200 \/ status >= 300

\* [row['source_id'] for row in rows if 'source_id' in row]
EchoedIds(rows) == SelectSeq(rows, LAMBDA e : e /= NoKey)

\* upload_data with no look at the status of the answer
UploadDataAnyStatus(resp) ==
  IF resp.kind = "transport" THEN [ids |-> <<>>, raised |-> ""]
  ELSE IF ~resp.wellformed THEN [ids |-> <<>>, raised |-> ""]
  ELSE [ids |-> SelectSeq(resp.rows, LAMBDA e : e /= NoKey), raised |-> ""]

\* upload_data(table, rows) of logger.py once the request got the answer resp:
\* every failure is answered with no ids
UploadData(resp) ==
  IF resp.kind = "transport" THEN [ids |-> <<>>, raised |-> ""]
  ELSE IF StatusRejected(resp.status) THEN [ids |-> <<>>, raised |-> ""]
  ELSE IF ~resp.wellformed THEN [ids |-> <<>>, raised |-> ""]
  ELSE [ids |-> EchoedIds(resp.rows), raised |-> ""]

\* upload_data of sqlite_logger.py: no exception is caught, and every row of
\* the answer must carry its id
SqliteUploadData(resp) ==
  IF resp.kind = "transport" THEN [ids |-> <<>>, raised |-> "urllib3.HTTPError"]
  ELSE IF StatusRejected(resp.status) THEN [ids |-> <<>>, raised |-> ""]
  ELSE IF ~resp.wellformed THEN [ids |-> <<>>, raised |-> "ValueError"]
  ELSE IF \E i \in 1..Len(resp.rows) : resp.rows[i] = NoKey
       THEN [ids |-> <<>>, raised |-> "KeyError"]
  ELSE [ids |-> resp.rows, raised |-> ""]

(***************************************************************************)
(* State.                                                                  *)
(***************************************************************************)
VARIABLES
  variant,      \* which source file's Logger runs
  tag,          \* Logger.tag
  platform,     \* the fields the host's cpu_times() exposes
  enabled,      \* Sensor.enabled, by sensor name
  store,        \* the database: table name -> rows
  now,          \* the clock datetime.utcnow() reads
  pc,           \* new, idle, upload, mark, done
  op,           \* the entry point running or just ended: collect, upload
  batch,        \* collect_and_log's all_data
  fault,        \* the index of the INSERT that failed in persist_data, or 0
  all_data,     \* upload_unsent_data's all_data
  ti,           \* the item of all_data the loop is at
  outcome,      \* how the last request of the cycle ended
  ids_to_mark,  \* upload_data's result
  rowcount,     \* mark_sent's rowcount
  raised,       \* the exception the entry point ended with, "" for none
  requests,     \* history: the requests the cycle issued, table and source_ids
  echoed,       \* history: the source_ids the last accepted answer echoed
  acked,        \* history: (table, source_id) acknowledged by the remote
  faults,       \* history: the storage failures and the stops of the process so far
  call          \* a function called on its own: its name, input and output

\* the configuration
config == <<variant, tag, platform>>

\* what collect_and_log holds
sampling == <<batch, fault>>

\* what upload_unsent_data holds
cycle == <<all_data, ti, outcome, ids_to_mark, rowcount, requests, echoed>>

vars == <<config, enabled, store, now, pc, op, sampling, cycle, raised, acked, faults, call>>

\* no function has been called on its own
NoCall == [fn |-> "none", input |-> <<>>, output |-> <<>>]

NoResp == [kind |-> "none", status |-> 0, wellformed |-> FALSE, rows |-> <<>>]

\* how a request ended, read off its answer: no request, no answer, a status
\* outside 200..299, a body that cannot be read, or an accepted batch
Outcome(v, r) ==
  IF r.kind = "none" THEN "none"
  ELSE IF r.kind = "transport" THEN "transport"
  ELSE IF r.status \notin 200..299 THEN "rejected"
  ELSE IF ~(r.wellformed /\ (v = "logger" \/ \A i \in 1..Len(r.rows) : r.rows[i] /= NoKey))
       THEN "malformed"
  ELSE "accepted"

\* the source_ids an accepted answer echoes
Echoed(v, r) == IF Outcome(v, r) = "accepted" THEN SeqToSet(r.rows) \ {NoKey} ELSE {}

\* the source_ids of a list of rows, as a set
IdsOf(rows) == {rows[i].source_id : i \in 1..Len(rows)}

\* the rows of the request that the answer r acknowledges: a 2xx answer
\* echoing their source_ids
Acknowledged(v, r, rows) == IdsOf(rows) \cap Echoed(v, r)

\* the tags the configuration may give the Logger
Tags == {None, <<"a">>}

\* what the light sensor's hardware may answer: the overflow of MockTsl2591,
\* a reading in range, a failed read of the visible channel
LightReads ==
  {[visible |-> 554840886, infrared |-> 8478, lux |-> LuxNone, err |-> {"lux"}],
   [visible |-> 1200, infrared |-> 300, lux |-> Rat(3672, 1), err |-> {}],
   [visible |-> 0, infrared |-> 300, lux |-> LuxNone, err |-> {"visible", "lux"}]}

\* what cpu_times() may expose: the four fields of macOS, and one field
\* (dpc, of Windows) the schema does not have
HostReads ==
  {[user |-> 7, nice |-> 0, system |-> 3, idle |-> 90, dpc |-> 1]}

Init ==
  /\ variant \in Variants
  /\ tag \in (IF variant = "logger" THEN Tags ELSE {None})
  /\ platform \in HostReads
  /\ enabled = [s \in Tables |-> FALSE]
  /\ store = [t \in Tables |-> <<>>]
  /\ now = 0
  /\ pc = "new"
  /\ op = ""
  /\ batch = <<>>
  /\ fault = 0
  /\ all_data = <<>>
  /\ ti = 0
  /\ outcome = "none"
  /\ ids_to_mark = <<>>
  /\ rowcount = 0
  /\ raised = ""
  /\ requests = <<>>
  /\ echoed = {}
  /\ acked = {}
  /\ faults = <<>>
  /\ call = NoCall

(***************************************************************************)
(* Actions.                                                                *)
(***************************************************************************)
\* whether the storage may fail now
Faults(faulty) == IF faulty /\ Len(faults) < MaxFaults THEN BOOLEAN ELSE {FALSE}

\* the INSERT of a batch that may fail now, 0 for none
FailAts(faulty) == IF faulty /\ Len(faults) < MaxFaults THEN 0..Len(Sensors) ELSE {0}

Count(fail) == IF fail THEN Append(faults, "storage") ELSE faults

\* Logger.setup(): the tables are created if absent, and each sensor is set
\* up; the light sensor stays disabled when its hardware is not there
Setup(hwOk) ==
  /\ pc = "new"
  /\ enabled' = [s \in Tables |-> IF s = "luminosity" THEN hwOk ELSE TRUE]
  /\ pc' = "idle"
  /\ UNCHANGED <<call, config, store, now, op, sampling, cycle, raised, acked, faults>>

\* time passes between two entry points
Tick ==
  /\ pc = "idle"
  /\ now < MaxTime
  /\ now' = now + 1
  /\ UNCHANGED <<call, config, enabled, store, pc, op, sampling, cycle, raised, acked, faults>>

\* collect_and_log after collect_data gave c: print_log, then persist_data,
\* which returns at once on an empty batch in logger.py
LogCollected(v, st, c, failAt) ==
  IF c.kind = "raise" THEN [batch |-> <<>>, store |-> st, raised |-> c.error]
  ELSE IF PrintLogRaises(c.batch) THEN [batch |-> c.batch, store |-> st, raised |-> "KeyError"]
  ELSE IF v = "logger" /\ c.batch = <<>> THEN [batch |-> c.batch, store |-> st, raised |-> ""]
  ELSE [batch |-> c.batch] @@ PersistData(v, st, c.batch, failAt)

\* the state collect_and_log leaves
Logged(p, failAt) ==
  /\ failAt <= Len(p.batch)
  /\ failAt > 0 => p.raised = "sqlite3.Error"
  /\ batch' = p.batch
  /\ fault' = failAt
  /\ store' = p.store
  /\ raised' = p.raised

\* Logger.collect_and_log(): collect_data, print_log, persist_data
CollectAndLog(hw, failAt) ==
  /\ pc = "idle"
  /\ \A t \in Tables : Len(store[t]) < MaxRows
  /\ Logged(LogCollected(variant, store,
                         CollectData(variant, enabled, now, tag, [hw |-> hw, host |-> platform]),
                         failAt), failAt)
  /\ op' = "collect"
  /\ pc' = "done"
  /\ faults' = Count(failAt > 0)
  /\ UNCHANGED <<call, config, enabled, now, cycle, acked>>

\* Logger.upload_unsent_data(tables), up to its loop: fetch_unsent_data, whose
\* SELECT may fail, and the .items() of what it returned
StartUpload(arg, fail) ==
  /\ pc = "idle"
  /\ op' = "upload"
  /\ ti' = 1
  /\ IF FetchReturnsNone(arg)
     THEN /\ all_data' = <<>>
          /\ raised' = "AttributeError"
          /\ pc' = "done"
     ELSE IF fail
     THEN /\ all_data' = <<>>
          /\ raised' = "sqlite3.Error"
          /\ pc' = "done"
     ELSE /\ all_data' = FetchUnsentData(store, arg)
          /\ raised' = ""
          /\ pc' = "upload"
  /\ faults' = Count(fail /\ ~FetchReturnsNone(arg))
  /\ UNCHANGED <<call, config, enabled, store, now, sampling, outcome, ids_to_mark, rowcount,
                 requests, echoed, acked>>

\* upload_data without its return on an empty list of rows
UploadAlways(r) ==
  /\ pc = "upload"
  /\ r \in Responses
  /\ requests' = Append(requests, [table |-> all_data[ti].table,
                                   ids |-> IdsOf(all_data[ti].rows)])
  /\ ids_to_mark' = (IF variant = "logger" THEN UploadData(r) ELSE SqliteUploadData(r)).ids
  /\ raised' = (IF variant = "logger" THEN UploadData(r) ELSE SqliteUploadData(r)).raised
  /\ pc' = IF raised' = "" THEN "mark" ELSE "done"
  /\ outcome' = Outcome(variant, r)
  /\ echoed' = Echoed(variant, r)
  /\ acked' = acked \cup {<<all_data[ti].table, id>> :
                            id \in Acknowledged(variant, r, all_data[ti].rows)}
  /\ UNCHANGED <<call, config, enabled, store, now, op, sampling, all_data, ti, rowcount, faults>>

\* the loop of upload_unsent_data at upload_data(table, rows): no request for
\* an empty list of rows, else one request, answered by r
Upload(r) ==
  /\ pc = "upload"
  /\ IF all_data[ti].rows = <<>>
     THEN /\ r = NoResp
          /\ ids_to_mark' = <<>>
          /\ pc' = "mark"
          /\ UNCHANGED <<raised, requests>>
     ELSE /\ r \in Responses
          /\ requests' = Append(requests, [table |-> all_data[ti].table,
                                           ids |-> IdsOf(all_data[ti].rows)])
          /\ ids_to_mark' = (IF variant = "logger" THEN UploadData(r) ELSE SqliteUploadData(r)).ids
          /\ raised' = (IF variant = "logger" THEN UploadData(r) ELSE SqliteUploadData(r)).raised
          /\ pc' = IF raised' = "" THEN "mark" ELSE "done"
  /\ outcome' = Outcome(variant, r)
  /\ echoed' = Echoed(variant, r)
  /\ acked' = acked \cup {<<all_data[ti].table, id>> :
                            id \in Acknowledged(variant, r, all_data[ti].rows)}
  /\ UNCHANGED <<call, config, enabled, store, now, op, sampling, all_data, ti, rowcount, faults>>

\* the loop of upload_unsent_data at mark_sent(table, ids_to_mark), whose
\* UPDATE may fail, and on to the next item of all_data
MarkSent(fail) ==
  /\ pc = "mark"
  /\ IF Len(ids_to_mark) = 0
     THEN /\ ~fail
          /\ UNCHANGED <<store, rowcount, raised>>
          /\ pc' = IF ti < Len(all_data) THEN "upload" ELSE "done"
     ELSE IF fail
     THEN /\ raised' = "sqlite3.Error"
          /\ pc' = "done"
          /\ UNCHANGED <<store, rowcount>>
     ELSE /\ store' = [store EXCEPT ![all_data[ti].table] =
                         UpdateSent(store[all_data[ti].table], ids_to_mark, now)]
          /\ rowcount' = UpdateRowcount(store[all_data[ti].table], ids_to_mark)
          /\ pc' = IF ti < Len(all_data) THEN "upload" ELSE "done"
          /\ UNCHANGED raised
  /\ ti' = IF pc' = "upload" THEN ti + 1 ELSE ti
  /\ ids_to_mark' = <<>>
  /\ faults' = Count(fail)
  /\ UNCHANGED <<call, config, enabled, now, op, sampling, all_data, outcome, requests, echoed,
                 acked>>

\* what a Logger's entry points held is gone when they return
Forget ==
  /\ op' = ""
  /\ batch' = <<>>
  /\ fault' = 0
  /\ all_data' = <<>>
  /\ ti' = 0
  /\ outcome' = "none"
  /\ ids_to_mark' = <<>>
  /\ rowcount' = 0
  /\ raised' = ""
  /\ requests' = <<>>
  /\ echoed' = {}

\* the entry point returns to the loop of main(); an exception it raised ends
\* the process, which starts anew with the same database and configuration
Return ==
  /\ pc = "done"
  /\ Forget
  /\ IF raised = ""
     THEN pc' = "idle" /\ UNCHANGED enabled
     ELSE pc' = "new" /\ enabled' = [s \in Tables |-> FALSE]
  /\ UNCHANGED <<call, config, store, now, acked, faults>>

\* the process stops in the middle of a forwarding cycle and starts anew
Crash ==
  /\ pc \in {"upload", "mark"}
  /\ Len(faults) < MaxFaults
  /\ Forget
  /\ pc' = "new"
  /\ enabled' = [s \in Tables |-> FALSE]
  /\ faults' = Append(faults, "stop")
  /\ UNCHANGED <<call, config, store, now, acked>>

\* the steps of the program, with or without storage failures
Step(faulty) ==
  \/ \E hwOk \in BOOLEAN : Setup(hwOk)
  \/ Tick
  \/ \E hw \in LightReads, failAt \in FailAts(faulty) : CollectAndLog(hw, failAt)
  \/ \E arg \in TablesArgs, fail \in Faults(faulty) : StartUpload(arg, fail)
  \/ \E r \in Responses \cup {NoResp} : Upload(r)
  \/ \E fail \in Faults(faulty) : MarkSent(fail)
  \/ Return

Next == Step(FALSE)

Spec == Init /\ [][Next]_vars

\* the program with the storage failing and the process stopping at will
NextFault == Step(TRUE) \/ Crash

SpecFault == Init /\ [][NextFault]_vars

\* persist_data of a collected batch, run by another process on the same
\* database while a forwarding cycle is between its fetch and its last
\* mark_sent
InsertBetween(hw) ==
  /\ pc \in {"upload", "mark"}
  /\ \A t \in Tables : Len(store[t]) < MaxRows
  /\ CollectData(variant, enabled, now, tag, [hw |-> hw, host |-> platform]).kind = "data"
  /\ store' = PersistData(variant, store,
                          CollectData(variant, enabled, now, tag,
                                      [hw |-> hw, host |-> platform]).batch, 0).store
  /\ store' /= store
  /\ UNCHANGED <<call, config, enabled, now, pc, op, sampling, cycle, raised, acked, faults>>

\* the program with rows appended in the middle of its forwarding cycles
NextInterleaved == Step(FALSE) \/ \E hw \in LightReads : InsertBetween(hw)

SpecInterleaved == Init /\ [][NextInterleaved]_vars

\* the call of upload_unsent_data() the schedule of main() makes, with no
\* argument
AllTables == [kind |-> "all", names |-> <<>>]

\* the remote endpoint answers 2xx and echoes every row of the request
Good(r) == Outcome(variant, r) = "accepted" /\ IdsOf(all_data[ti].rows) \subseteq Echoed(variant, r)

\* the upload of a table, the remote endpoint being good once the clock has
\* reached MaxTime
UploadLive(r) == Upload(r) /\ ((now = MaxTime /\ r /= NoResp) => Good(r))

\* the program run by main(): its schedule runs both jobs again and again
NextLive ==
  \/ \E hwOk \in BOOLEAN : Setup(hwOk)
  \/ Tick
  \/ \E hw \in LightReads : CollectAndLog(hw, 0)
  \/ StartUpload(AllTables, FALSE)
  \/ \E r \in Responses \cup {NoResp} : UploadLive(r)
  \/ MarkSent(FALSE)
  \/ Return

\* the loop of main() never stops running pending jobs, the clock goes on,
\* and a started job runs to its end
SpecLive ==
  /\ Init /\ [][NextLive]_vars
  /\ WF_vars(\E hwOk \in BOOLEAN : Setup(hwOk))
  /\ SF_vars(Tick)
  /\ SF_vars(StartUpload(AllTables, FALSE))
  /\ WF_vars(\E r \in Responses \cup {NoResp} : UploadLive(r))
  /\ WF_vars(MarkSent(FALSE))
  /\ WF_vars(Return)

(***************************************************************************)
(* The functions of the program called on their own, each on inputs drawn  *)
(* from a set: the Logger stays as constructed.                            *)
(***************************************************************************)
\* the state of the Logger, which a call of a function on its own leaves alone
logger_state == <<config, enabled, store, now, pc, op, sampling, cycle, raised, acked, faults>>

\* the credential headers of the configuration
ConfigHeaders == {"X-Master-Key", "X-Access-Key"}

\* the headers upload_data starts from
BaseHeaders == {"Content-Type", "Accept"}

\* kwargs.get(key, default)
KwargsGet(kwargs, key, default) == IF key \in DOMAIN kwargs THEN kwargs[key] ELSE default

\* the keyword arguments main() constructs the Logger with
MainKwargs == [tag |-> {}, update_url |-> {}, headers |-> ConfigHeaders]

\* the keyword arguments under the names Logger.__init__ reads
NamedKwargs == [tag |-> {}, update_url |-> {}, update_headers |-> ConfigHeaders]

\* the ways a Logger is constructed
Constructions == {"main", "named"}

\* Logger.__init__: self.update_headers
LoggerInit(kwargs) == [update_headers |-> KwargsGet(kwargs, "update_headers", {})]

\* the headers of the request upload_data issues; sqlite_logger.py always adds
\* its update_auth
UploadHeaders(v, how) ==
  IF v = "logger"
  THEN BaseHeaders \cup LoggerInit(IF how = "main" THEN MainKwargs ELSE NamedKwargs).update_headers
  ELSE BaseHeaders \cup ConfigHeaders

\* upload_data called on a Logger constructed one way or the other
CallUploadHeaders(v, how) ==
  /\ call = NoCall
  /\ call' = [fn |-> "upload_headers", input |-> [variant |-> v, how |-> how],
              output |-> UploadHeaders(v, how)]
  /\ UNCHANGED logger_state

\* the values of Python that reach the store, each with its type
PyInt(i) == [type |-> "int", n |-> i, d |-> 1, s |-> <<>>]

PyFloat(r) == [type |-> "float", n |-> r.n, d |-> r.d, s |-> <<>>]

PyStr(s) == [type |-> "str", n |-> 0, d |-> 1, s |-> s]

PyNone == [type |-> "NoneType", n |-> 0, d |-> 1, s |-> <<>>]

\* the datetime of instant t, counted in seconds
PyDatetime(t) == [type |-> "datetime", n |-> t, d |-> 1, s |-> <<>>]

\* datetime.isoformat(" "), the text sqlite3's adapter stores for a datetime
\* (instants below ten seconds)
IsoFormat(t) ==
  <<"1", "9", "7", "0", "-", "0", "1", "-", "0", "1", " ",
    "0", "0", ":", "0", "0", ":", "0", Digits[t + 1]>>

\* a value bound to a '?' of a statement: its storage class and content
Bind(pv) ==
  IF pv.type = "int" THEN [class |-> "INTEGER", n |-> pv.n, d |-> 1, s |-> <<>>]
  ELSE IF pv.type = "float" THEN [class |-> "REAL", n |-> pv.n, d |-> pv.d, s |-> <<>>]
  ELSE IF pv.type = "str" THEN [class |-> "TEXT", n |-> 0, d |-> 1, s |-> pv.s]
  ELSE IF pv.type = "datetime" THEN [class |-> "TEXT", n |-> 0, d |-> 1, s |-> IsoFormat(pv.n)]
  ELSE [class |-> "NULL", n |-> 0, d |-> 1, s |-> <<>>]

\* the number a text that looks like one is converted to in a numeric column
NumberOfText(sv, f) ==
  [class |-> IF f.d = 1 THEN "INTEGER" ELSE "REAL", n |-> f.n, d |-> f.d, s |-> <<>>]

\* what a numeric column keeps of a number: a REAL column makes it REAL, an
\* INTEGER column makes it INTEGER when that loses nothing
NumericAffinity(kind, sv) ==
  IF kind = "REAL" THEN [sv EXCEPT !.class = "REAL"]
  ELSE IF sv.d = 1 THEN [sv EXCEPT !.class = "INTEGER"]
  ELSE sv

\* what a column of the declared kind keeps of a bound value: sqlite's type
\* affinity (a number is never bound to a TEXT column here)
Affinity(kind, sv) ==
  IF kind = "TEXT" \/ sv.class = "NULL" THEN sv
  ELSE IF sv.class = "TEXT"
       THEN IF FloatOk(sv.s) THEN NumericAffinity(kind, NumberOfText(sv, Float(sv.s))) ELSE sv
  ELSE NumericAffinity(kind, sv)

\* the value of Python a sqlite3.Row gives for a stored value
RowValue(sv) ==
  IF sv.class = "INTEGER" THEN PyInt(sv.n)
  ELSE IF sv.class = "REAL" THEN PyFloat(sv)
  ELSE IF sv.class = "TEXT" THEN PyStr(sv.s)
  ELSE PyNone

\* the declared kind of a column
ColumnKind(c) == IF c = "tag" THEN "TEXT"
                 ELSE IF c \in {"visible", "infrared"} THEN "INTEGER"
                 ELSE "REAL"

\* the value of Python a field of a reading holds: the tag a str or None, the
\* raw channels ints, lux and the cpu times floats
PyOf(c, x) == IF c = "tag" THEN (IF x = None THEN PyNone ELSE PyStr(x))
              ELSE IF c \in {"visible", "infrared"} THEN PyInt(x)
              ELSE IF c = "lux" THEN PyFloat(x)
              ELSE PyFloat(FromInt(x))

\* the fields persist_data names in its INSERT, with their values
InsertedFields(reading) ==
  [c \in {"at"} \cup DOMAIN reading.data |->
     IF c = "at" THEN PyDatetime(reading.at) ELSE PyOf(c, reading.data[c])]

\* the columns of a table besides source_id and sent
Columns(v, table) ==
  (IF v = "logger" THEN {"tag", "at"} ELSE {"at"}) \cup SeqToSet(Schema(v, table))

\* the row fetch_unsent_data gives for a reading persist_data inserted
FetchedFields(v, reading) ==
  [c \in Columns(v, reading.table) |->
     RowValue(Affinity(ColumnKind(c),
                       Bind(IF c \in DOMAIN InsertedFields(reading)
                            THEN InsertedFields(reading)[c] ELSE PyNone)))]

\* the tags a sensor may be read with
CallTags ==
  {None, EmptyStr, <<"a">>, <<"n", "d", "=", "2", ".", "0">>, <<"n", "d", "=", "a", "b", "c">>,
   <<"a", ",", " ", "n", "d", "=", "2">>, <<"n", "d", "=">>, <<"n", "d", "=", ".", "5">>,
   <<"n", "d", "=", "-", "1">>, <<"n", "d", "=", "0">>, <<"x", "=", "1", "&", "n", "d", "=", "3">>}

\* the values the light sensor's hardware may give for visible, which it
\* derives from the 32 bits of both channels
VisibleReads == {0, 1, 1200, 65535, 554840886}

\* the values it may give for infrared, a channel of 16 bits
InfraredReads == {0, 1, 300, 8478, 65535}

\* the lux the hardware may give
Luxes == {Rat(0, 1), Rat(7, 2), Rat(3672, 1)}

\* what the light sensor's hardware may answer, with every set of failed reads
CallLightReads ==
  {[visible |-> vi, infrared |-> ir, lux |-> lx, err |-> e] :
     vi \in VisibleReads, ir \in InfraredReads, lx \in Luxes,
     e \in SUBSET {"visible", "infrared", "lux"}}

\* the readings the sensors give, for the round trip through the store
CallReadings(v) ==
  {c.data : c \in {x \in {SensorCollect(v, name, t, tg, [hw |-> hw, host |-> host]) :
                             name \in Tables, t \in 0..MaxTime, tg \in Tags,
                             hw \in LightReads, host \in HostReads} :
                     x.kind = "data"}}

\* persist_data of one reading, then fetch_unsent_data
CallRoundTrip(v, reading) ==
  /\ call = NoCall
  /\ call' = [fn |-> "round_trip", input |-> [variant |-> v, reading |-> reading],
              output |-> FetchedFields(v, reading)]
  /\ UNCHANGED logger_state

\* Tsl2591Sensor.sensor_data(tag), the hardware answering hw
CallSensorData(tg, hw) ==
  /\ call = NoCall
  /\ call' = [fn |-> "sensor_data", input |-> [tag |-> tg, hw |-> hw],
              output |-> Tsl2591SensorData(tg, hw)]
  /\ UNCHANGED logger_state

\* Logger.collect_data() on a Logger with the given sensors enabled
CallCollectData(v, en, tg, hw) ==
  /\ call = NoCall
  /\ call' = [fn |-> "collect_data",
              input |-> [variant |-> v, enabled |-> en, tag |-> tg, hw |-> hw, host |-> platform],
              output |-> CollectData(v, en, now, tg, [hw |-> hw, host |-> platform])]
  /\ UNCHANGED logger_state

\* upload_unsent_data(tables) on a store st in which no table it fetches has
\* an unsent row: the .items() of what fetch_unsent_data returned, then a loop
\* that makes no request and marks nothing
UploadUnsentData(st, arg) ==
  IF FetchReturnsNone(arg)
  THEN [raised |-> "AttributeError", requests |-> <<>>, store |-> st]
  ELSE [raised |-> "", requests |-> <<>>, store |-> st]

\* Logger.upload_unsent_data(tables) with the tables argument arg
CallUploadUnsentData(arg) ==
  /\ call = NoCall
  /\ \A k \in 1..Len(FetchUnsentData(store, arg)) : FetchUnsentData(store, arg)[k].rows = <<>>
  /\ call' = [fn |-> "upload_unsent_data",
              input |-> arg,
              output |-> UploadUnsentData(store, arg)]
  /\ UNCHANGED logger_state

NextCall ==
  \/ \E arg \in TablesArgs : CallUploadUnsentData(arg)
  \/ \E v \in Variants, en \in [Tables -> BOOLEAN], tg \in Tags, hw \in LightReads :
       CallCollectData(v, en, tg, hw)
  \/ \E tg \in CallTags, hw \in CallLightReads : CallSensorData(tg, hw)
  \/ \E v \in Variants : \E reading \in CallReadings(v) : CallRoundTrip(v, reading)
  \/ \E v \in Variants, how \in Constructions : CallUploadHeaders(v, how)

SpecCall == Init /\ [][NextCall]_vars

(***************************************************************************)
(* The properties.                                                         *)
(***************************************************************************)
\* the last request of the cycle
LastRequest == requests[Len(requests)]

\* the endings of a request that are failures
Failures == {"transport", "rejected", "malformed"}

\* C1: once mark_sent has run for the table the loop is at, a row's sent is
\* not NULL if and only if a request for its table that held the row got a
\* 2xx answer that echoed its source_id.
C1_SentIffAcknowledged ==
  pc /= "mark" =>
    \A t \in Tables : \A i \in 1..Len(store[t]) :
      (store[t][i].sent /= NULL) <=> (<<t, store[t][i].source_id>> \in acked)

\* C1: a cycle has ended in which, of the two unsent rows of a table, the one
\* the 2xx answer echoed is sent and the other is not.
C1_Witness ==
  /\ pc = "done" /\ op = "upload" /\ raised = ""
  /\ \E t \in Tables :
       /\ Len(store[t]) = 2
       /\ store[t][1].sent = NULL /\ <<t, 1>> \notin acked
       /\ store[t][2].sent /= NULL /\ <<t, 2>> \in acked
       /\ \E k \in 1..Len(requests) : requests[k] = [table |-> t, ids |-> {1, 2}]

\* C2: a row's sent, once not NULL, keeps its value in every step.
C2_SentSetOnce ==
  [][\A t \in Tables : \A i \in 1..Len(store[t]) :
       store[t][i].sent /= NULL =>
         /\ i <= Len(store'[t])
         /\ store'[t][i].sent = store[t][i].sent]_vars

\* C3: what fetch_unsent_data returned for a table is, until mark_sent runs
\* for that table, exactly the table's rows whose sent is NULL: every appended
\* row not yet marked is returned and no marked row is; and no step removes a
\* row or changes any column of it but sent.
C3_FetchedIsUnsent ==
  /\ [](pc = "upload" =>
          \A k \in ti..Len(all_data) :
            /\ \A i \in 1..Len(store[all_data[k].table]) :
                 (store[all_data[k].table][i].sent = NULL)
                   <=> (\E j \in 1..Len(all_data[k].rows) :
                          all_data[k].rows[j] = store[all_data[k].table][i])
            /\ \A j \in 1..Len(all_data[k].rows) :
                 \E i \in 1..Len(store[all_data[k].table]) :
                   all_data[k].rows[j] = store[all_data[k].table][i])
  /\ [][\A t \in Tables : \A i \in 1..Len(store[t]) :
          /\ i <= Len(store'[t])
          /\ [store'[t][i] EXCEPT !.sent = NULL] = [store[t][i] EXCEPT !.sent = NULL]]_vars

\* C3: a fetch has returned the unsent row of a table and not the row of that
\* table that was marked before.
C3_Witness ==
  /\ pc = "upload" /\ ti = 1
  /\ \E k \in 1..Len(all_data) :
       /\ Len(store[all_data[k].table]) = 2
       /\ store[all_data[k].table][1].sent /= NULL
       /\ store[all_data[k].table][2].sent = NULL
       /\ all_data[k].rows = <<store[all_data[k].table][2]>>

\* C4: when the 2xx answer to the request for the unsent rows U of a table
\* echoed the source_ids of a subset S of U, then after mark_sent the rows of
\* S are sent and the rows of U that are not in S are unsent.
C4_PartialAcceptance ==
  (/\ pc \in {"upload", "done"}
   /\ raised = ""
   /\ outcome = "accepted"
   /\ echoed \subseteq LastRequest.ids) =>
    \A i \in 1..Len(store[LastRequest.table]) :
      store[LastRequest.table][i].source_id \in LastRequest.ids =>
        ((store[LastRequest.table][i].sent /= NULL)
           <=> (store[LastRequest.table][i].source_id \in echoed))

\* C4: two rows were uploaded, the answer echoed the second alone, and
\* mark_sent has run.
C4_Witness ==
  /\ pc \in {"upload", "done"}
  /\ raised = ""
  /\ outcome = "accepted"
  /\ LastRequest.ids = {1, 2}
  /\ echoed = {2}
  /\ store[LastRequest.table][1].sent = NULL
  /\ store[LastRequest.table][2].sent /= NULL

\* C5: when the request for a table's rows ended in a status outside 200..299,
\* a body that cannot be read or a transport failure, every row of the request
\* is unsent afterwards, and neither upload_data nor the mark_sent that follows
\* it changes the store.
C5_FailureIsolation ==
  /\ []((pc \in {"mark", "upload", "done"} /\ outcome \in Failures) =>
          \A i \in 1..Len(store[LastRequest.table]) :
            store[LastRequest.table][i].source_id \in LastRequest.ids =>
              store[LastRequest.table][i].sent = NULL)
  /\ [][(pc = "upload" \/ (pc = "mark" /\ outcome \in Failures)) => store' = store]_vars

\* C5: the request for two rows ended in a failure, the loop has gone past
\* mark_sent, and both rows are unsent.
C5_Witness ==
  /\ pc = "done" /\ op = "upload"
  /\ outcome \in Failures
  /\ LastRequest.ids = {1, 2}
  /\ \A i \in 1..2 : store[LastRequest.table][i].sent = NULL

\* C6: when a forwarding cycle has ended, every table it fetched unsent rows
\* for, other than the one the loop was at, has had its request, and its rows
\* that the remote acknowledged are marked.
C6_TablesIndependent ==
  (pc = "done" /\ op = "upload") =>
    \A k \in 1..Len(all_data) :
      (k /= ti /\ all_data[k].rows /= <<>>) =>
        /\ \E n \in 1..Len(requests) :
             requests[n] = [table |-> all_data[k].table, ids |-> IdsOf(all_data[k].rows)]
        /\ \A i \in 1..Len(store[all_data[k].table]) :
             <<all_data[k].table, store[all_data[k].table][i].source_id>> \in acked
               => store[all_data[k].table][i].sent /= NULL

\* C7: a stop of the process between the accepted upload of a batch and its
\* mark_sent leaves the store as it was, every row of the batch unsent; every
\* later request for the table holds each row that was acknowledged and is
\* still unsent; and a cycle that ends without an exception has made a request
\* with all the unsent rows of every table it fetched.
C7_AtLeastOnce ==
  /\ [][(pc = "mark" /\ outcome = "accepted" /\ pc' = "new") =>
          /\ store' = store
          /\ \A j \in 1..Len(all_data[ti].rows) :
               \E i \in 1..Len(store'[all_data[ti].table]) :
                 /\ store'[all_data[ti].table][i].source_id = all_data[ti].rows[j].source_id
                 /\ store'[all_data[ti].table][i].sent = NULL]_vars
  /\ []((pc = "mark" /\ all_data[ti].rows /= <<>>) =>
          /\ LastRequest.table = all_data[ti].table
          /\ \A i \in 1..Len(store[all_data[ti].table]) :
               (/\ store[all_data[ti].table][i].sent = NULL
                /\ <<all_data[ti].table, store[all_data[ti].table][i].source_id>> \in acked)
                 => store[all_data[ti].table][i].source_id \in LastRequest.ids)
  /\ []((pc = "done" /\ op = "upload" /\ raised = "") =>
          \A k \in 1..Len(all_data) :
            all_data[k].rows /= <<>> =>
              \E n \in 1..Len(requests) :
                requests[n] = [table |-> all_data[k].table, ids |-> IdsOf(all_data[k].rows)])

\* C7: the process stopped once, no storage failure happened, and a later
\* request, itself not accepted, holds two rows that were acknowledged before
\* and are unsent.
C7_Witness ==
  /\ faults = <<"stop">>
  /\ pc = "mark"
  /\ outcome \in Failures
  /\ LastRequest.ids = {1, 2}
  /\ \A i \in 1..2 :
       /\ store[LastRequest.table][i].sent = NULL
       /\ <<LastRequest.table, store[LastRequest.table][i].source_id>> \in acked

\* C8: a mark_sent whose ids name only rows that are sent already updates no
\* row: the store stays as it is and the rowcount is 0.
C8_MarkSentIdempotent ==
  [][(/\ pc = "mark"
      /\ ids_to_mark /= <<>>
      /\ \A i \in 1..Len(store[all_data[ti].table]) :
           store[all_data[ti].table][i].source_id \in SeqToSet(ids_to_mark)
             => store[all_data[ti].table][i].sent /= NULL) =>
       (store' = store /\ rowcount' = 0)]_vars

\* C9: when persist_data ends in a failed INSERT, every reading of the batch
\* but the failed one has its row in its table.
C9_OtherReadingsStored ==
  [][(pc = "idle" /\ pc' = "done" /\ op' = "collect" /\ fault' > 0) =>
       \A i \in 1..Len(batch') :
         i /= fault' =>
           /\ Len(store'[batch'[i].table]) = Len(store[batch'[i].table]) + 1
           /\ store'[batch'[i].table][Len(store'[batch'[i].table])].sent = NULL
           /\ store'[batch'[i].table][Len(store'[batch'[i].table])].at = batch'[i].at]_vars

\* C10: in each table the source_ids grow strictly from each row to the next,
\* so no two rows share one; no step changes the source_id of a row or removes
\* a row; and a row a step adds gets a source_id above all the table had.
C10_SourceIds ==
  /\ [](\A t \in Tables : \A i, j \in 1..Len(store[t]) :
          i < j => store[t][i].source_id < store[t][j].source_id)
  /\ [][\A t \in Tables :
          /\ Len(store'[t]) >= Len(store[t])
          /\ \A i \in 1..Len(store[t]) : store'[t][i].source_id = store[t][i].source_id
          /\ \A j \in (Len(store[t]) + 1)..Len(store'[t]) :
               \A i \in 1..Len(store[t]) : store'[t][j].source_id > store[t][i].source_id]_vars

\* C10: a table holds two rows, inserted in two passes, the first marked sent
\* before the second was inserted.
C10_Witness ==
  \E t \in Tables :
    /\ Len(store[t]) = 2
    /\ store[t][1].source_id = 1 /\ store[t][2].source_id = 2
    /\ store[t][1].sent /= NULL /\ store[t][2].sent = NULL
    /\ store[t][1].sent < store[t][2].at

\* C11: every request upload_data issues carries the two credential headers
\* of the configuration besides Content-Type and Accept, however the Logger
\* was constructed, the way main() does it included.
C11_CredentialHeaders ==
  call.fn = "upload_headers" => (BaseHeaders \cup ConfigHeaders) \subseteq call.output

\* C12: a reading inserted by persist_data and fetched by fetch_unsent_data
\* reads back with the same value in every field it holds, at and tag
\* included, and with None in every column it does not hold.
C12_RoundTrip ==
  call.fn = "round_trip" =>
    \A c \in DOMAIN call.output :
      call.output[c] = IF c = "at" THEN PyDatetime(call.input.reading.at)
                       ELSE IF c \in DOMAIN call.input.reading.data
                            THEN PyOf(c, call.input.reading.data[c])
                       ELSE PyNone

\* C13: read with a tag that is a string, the light sensor gives a reading
\* if and only if the reads of visible and of infrared both succeeded,
\* whatever values they gave and whether or not the read of lux succeeded.
C13_ReadingIffChannels ==
  (call.fn = "sensor_data" /\ call.input.tag /= None) =>
    ((call.output.kind = "data")
       <=> ("visible" \notin call.input.hw.err /\ "infrared" \notin call.input.hw.err))

\* the first branch of the overflow formula: (channel0 - B * channel1) / cpl
C14_Branch1(channel0, channel1) ==
  RatDiv(RatSub(FromInt(channel0), RatMul(Rat(164, 100), FromInt(channel1))), Rat(100, 408))

\* the second branch: (C * channel0 - D * channel1) / cpl
C14_Branch2(channel0, channel1) ==
  RatDiv(RatSub(RatMul(Rat(59, 100), FromInt(channel0)),
                RatMul(Rat(86, 100), FromInt(channel1))), Rat(100, 408))

\* the tags of the calls that hold no nd option
C14_PlainTags == {None, EmptyStr, <<"a">>}

C15_Nd ==
  {<<(<<"n", "d", "=", "2", ".", "0">>), Rat(2, 1)>>,
   <<(<<"a", ",", " ", "n", "d", "=", "2">>), Rat(2, 1)>>,
   <<(<<"n", "d", "=", ".", "5">>), Rat(1, 2)>>,
   <<(<<"n", "d", "=", "-", "1">>), Rat(-1, 1)>>,
   <<(<<"n", "d", "=", "0">>), Rat(0, 1)>>}

\* the tags of the calls with no nd option, or a malformed or empty one
C15_NoNd == {EmptyStr, <<"a">>, <<"n", "d", "=", "a", "b", "c">>, <<"n", "d", "=">>}

\* the lux of a call before the nd option is applied: the lux read, or the
\* lux computed when its read failed
C15_Lux ==
  IF "lux" \in call.input.hw.err
  THEN OverflowLux(call.input.hw.visible, call.input.hw.infrared)
  ELSE call.input.hw.lux

\* C15: read with a tag that is a string, the light sensor raises no error;
\* when it gives a reading, a tag with the option nd=<number> makes the lux
\* that number times the lux read or computed, and a tag with a malformed nd
\* or with none leaves that lux as it is.
C15_NdMultiplier ==
  (call.fn = "sensor_data" /\ call.input.tag /= None) =>
    /\ call.output.kind /= "raise"
    /\ call.output.kind = "data" =>
         /\ \A p \in C15_Nd :
              call.input.tag = p[1] => call.output.data.lux = RatMul(C15_Lux, p[2])
         /\ call.input.tag \in C15_NoNd => call.output.data.lux = C15_Lux

\* C15: the sensor was read with tag nd=2.0 and lux 3672, and the reading
\* holds the lux 7344.
C15_Witness ==
  /\ call.fn = "sensor_data"
  /\ call.input.tag = <<"n", "d", "=", "2", ".", "0">>
  /\ call.input.hw.lux = [n |-> 3672, d |-> 1]
  /\ call.input.hw.err = {}
  /\ call.output.kind = "data"
  /\ call.output.data.lux = [n |-> 7344, d |-> 1]

\* C15: the sensor was read with tag nd=abc and lux 3672, and the reading
\* holds the lux 3672.
C15_WitnessMalformed ==
  /\ call.fn = "sensor_data"
  /\ call.input.tag = <<"n", "d", "=", "a", "b", "c">>
  /\ call.input.hw.lux = [n |-> 3672, d |-> 1]
  /\ call.input.hw.err = {}
  /\ call.output.kind = "data"
  /\ call.output.data.lux = [n |-> 3672, d |-> 1]

\* the source_ids of the rows of a table whose sent is NULL
UnsentIds(t) == {store[t][i].source_id : i \in {j \in 1..Len(store[t]) : store[t][j].sent = NULL}}

\* C16: for a table with no unsent rows the cycle makes no request and
\* changes nothing in the store; a request holds at least one row; for a
\* table with unsent rows the request holds all of them; no table gets two
\* requests in a cycle, and a cycle that ends without an exception has made
\* one for every table with unsent rows.
C16_RequestOnlyForUnsent ==
  /\ [](\A n \in 1..Len(requests) :
          /\ requests[n].ids /= {}
          /\ \A k \in 1..Len(requests) : k /= n => requests[k].table /= requests[n].table)
  /\ [][(pc \in {"upload", "mark"} /\ all_data[ti].rows = <<>>) =>
          (requests' = requests /\ store' = store)]_vars
  /\ [][(pc = "upload" /\ all_data[ti].rows /= <<>>) =>
          requests' = Append(requests, [table |-> all_data[ti].table,
                                        ids |-> UnsentIds(all_data[ti].table)])]_vars
  /\ []((pc = "done" /\ op = "upload" /\ raised = "") =>
          \A k \in 1..Len(all_data) :
            Cardinality({n \in 1..Len(requests) : requests[n].table = all_data[k].table})
              = IF all_data[k].rows = <<>> THEN 0 ELSE 1)

\* C16: a cycle over both tables has ended: the first table had no unsent
\* row and got no request, the second had two and got one request with both.
C16_Witness ==
  /\ pc = "done" /\ op = "upload" /\ raised = ""
  /\ Len(all_data) = 2
  /\ all_data[1].rows = <<>>
  /\ Len(all_data[2].rows) = 2
  /\ requests = <<[table |-> all_data[2].table, ids |-> {1, 2}]>>

\* C17: the batch collect_data returns holds, in the order of the sensors,
\* one entry for each sensor that is enabled and gave data, with the time of
\* the call and that data, and no entry for a sensor that is not enabled or
\* gave absent; and the call leaves the store as it is.
C17_CollectEnabledOnly ==
  /\ []((call.fn = "collect_data" /\ call.output.kind = "data") =>
          /\ \A s \in Tables :
               (\E i \in 1..Len(call.output.batch) : call.output.batch[i].table = s)
                 <=> (/\ call.input.enabled[s]
                      /\ SensorCollect(call.input.variant, s, now, call.input.tag,
                                       [hw |-> call.input.hw, host |-> call.input.host]).kind
                           = "data")
          /\ \A i \in 1..Len(call.output.batch) :
               /\ call.output.batch[i] =
                    SensorCollect(call.input.variant, call.output.batch[i].table, now,
                                  call.input.tag,
                                  [hw |-> call.input.hw, host |-> call.input.host]).data
               /\ call.output.batch[i].at = now
               /\ \A j \in 1..Len(call.output.batch) :
                    i < j => (/\ call.output.batch[i].table = Sensors[1]
                              /\ call.output.batch[j].table = Sensors[2]))
  /\ []((call.fn = "collect_data" /\ call.output.kind = "raise") =>
          \E s \in Tables :
            /\ call.input.enabled[s]
            /\ SensorCollect(call.input.variant, s, now, call.input.tag,
                             [hw |-> call.input.hw, host |-> call.input.host]).kind = "raise")
  /\ [][call' /= call => store' = store]_vars

\* C17: collect_data was called with the light sensor not enabled and the
\* cpu sensor enabled, and the batch holds the cpu reading alone.
C17_Witness ==
  /\ call.fn = "collect_data"
  /\ ~call.input.enabled["luminosity"]
  /\ call.input.enabled["cpu"]
  /\ call.output.kind = "data"
  /\ Len(call.output.batch) = 1
  /\ call.output.batch[1].table = "cpu"

\* C18: a step changes the sent of a row only in mark_sent, and to the time
\* of the clock at that step; and the sent of a marked row is not before its
\* time of capture.
C18_SentIsMarkTime ==
  /\ [][\A t \in Tables : \A i \in 1..Len(store[t]) :
          store'[t][i].sent /= store[t][i].sent =>
            (pc = "mark" /\ store'[t][i].sent = now)]_vars
  /\ [](\A t \in Tables : \A i \in 1..Len(store[t]) :
          store[t][i].sent /= NULL => store[t][i].sent >= store[t][i].at)

\* C18: one mark_sent, at a time after their capture, has marked the two
\* rows of a table, and both hold that time.
C18_Witness ==
  /\ pc = "done" /\ op = "upload" /\ rowcount = 2
  /\ \E t \in Tables :
       /\ Len(store[t]) = 2
       /\ \A i \in 1..2 : store[t][i].at < now /\ store[t][i].sent = now

\* the rows of table t that are unsent and were not in the rows the cycle
\* fetched for t: they were inserted after the fetch
Between(t) ==
  {i \in 1..Len(store[t]) :
     /\ store[t][i].sent = NULL
     /\ \E k \in 1..Len(all_data) :
          all_data[k].table = t /\ store[t][i].source_id \notin IdsOf(all_data[k].rows)}

\* C19: in a forwarding cycle whose remote echoes only source_ids of the
\* request, no step marks a row inserted after the fetch: it stays unsent;
\* the fetch of a cycle takes every unsent row of each of its tables, and
\* the request for a table holds every row fetched for it.
C19_InsertedBetweenStaysUnsent ==
  /\ [][(/\ pc \in {"upload", "mark"}
          /\ pc = "mark" => echoed \subseteq IdsOf(all_data[ti].rows))
          => \A t \in Tables : \A i \in Between(t) : store'[t][i].sent = NULL]_vars
  /\ [][(pc = "idle" /\ pc' = "upload") =>
          \A k \in 1..Len(all_data') :
            IdsOf(all_data'[k].rows) = UnsentIds(all_data'[k].table)]_vars
  /\ [][(pc = "upload" /\ pc' /= "upload" /\ all_data[ti].rows /= <<>>) =>
          LastRequest' = [table |-> all_data[ti].table, ids |-> IdsOf(all_data[ti].rows)]]_vars

\* C19: a cycle has ended that fetched row 1 of a table alone, sent it and
\* marked it, while row 2, inserted after the fetch, is unsent.
C19_Witness ==
  /\ pc = "done" /\ op = "upload" /\ raised = ""
  /\ \E k \in 1..Len(all_data) :
       /\ IdsOf(all_data[k].rows) = {1}
       /\ Len(store[all_data[k].table]) = 2
       /\ store[all_data[k].table][1].sent /= NULL
       /\ Between(all_data[k].table) = {2}

\* C20: under the fair schedule and a remote endpoint that is good from some
\* time on, every row of the store is eventually marked sent; an upload that
\* failed leaves every row of its request unsent, and the fetch of a cycle
\* takes every unsent row, those of a failed batch included.
C20_EventualDelivery ==
  /\ \A t \in Tables : \A i \in 1..MaxRows :
       (Len(store[t]) >= i) ~> (Len(store[t]) >= i /\ store[t][i].sent /= NULL)
  /\ [][(pc = "upload" /\ outcome' \in Failures) =>
          LastRequest'.ids \subseteq IdsOf(SelectSeq(store'[LastRequest'.table],
                                                    LAMBDA row : row.sent = NULL))]_vars
  /\ [][(pc = "idle" /\ pc' = "upload") =>
          \A k \in 1..Len(all_data') :
            /\ all_data'[k].table = Sensors[k]
            /\ IdsOf(all_data'[k].rows) = UnsentIds(Sensors[k])]_vars

\* C20: both tables are full and every row is marked sent, one of them
\* captured at time 0 and marked at the end of time.
C20_Witness ==
  /\ \A t \in Tables :
       /\ Len(store[t]) = MaxRows
       /\ \A i \in 1..MaxRows : store[t][i].sent /= NULL
  /\ \E t \in Tables : store[t][1].at = 0 /\ store[t][1].sent = MaxTime

\* C21: collect_data of logger.py with no tag configured, the light sensor
\* enabled and its three reads successful, returns a batch that holds a
\* reading of the light sensor.
C21_NoTagCollects ==
  (/\ call.fn = "collect_data"
   /\ call.input.variant = "logger"
   /\ call.input.tag = None
   /\ call.input.enabled["luminosity"]
   /\ call.input.hw.err = {})
  => /\ call.output.kind = "data"
     /\ \E i \in 1..Len(call.output.batch) : call.output.batch[i].table = "luminosity"

\* C22: upload_unsent_data called with an empty list of tables, or with an
\* argument that is neither 'all', a string nor a list, raises nothing, makes
\* no request and leaves the store as it was.
C22_NoTablesCompletes ==
  (/\ call.fn = "upload_unsent_data"
   /\ \/ call.input.kind = "list" /\ call.input.names = <<>>
      \/ call.input.kind = "other")
  => /\ call.output.raised = ""
     /\ call.output.requests = <<>>
     /\ call.output.store = store

====
